---------------------------- MODULE Spec2Model ----------------------------
(***************************************************************************)
(* A model of the GPU bucket sort of generative-matter: the binning scheme *)
(* (BinConfig), the generic compute kernel wrapper (Compute), and the      *)
(* three-stage sort (RadixSort: count, scan, reorder) working on the       *)
(* particle buffers.                                                       *)
(*                                                                         *)
(* Three specifications share the module:                                  *)
(*   Spec         the sort: construction, then frames that record          *)
(*                RadixSort::update on a command encoder, submit it, and   *)
(*                let the device run the recorded commands in order;       *)
(*   SpecBin      BinConfig::new applied to bounded inputs;                *)
(*   SpecCompute  Compute::new applied to bounded inputs.                  *)
(*                                                                         *)
(* The compute shaders (count.comp, scan.comp, reorder.comp) are not part  *)
(* of the sources at hand; what a dispatch does to the buffers bound to it *)
(* is taken from the design document, and the binding lists, the dispatch  *)
(* sizes and the order of the dispatches are taken from the code.          *)
(***************************************************************************)
EXTENDS Integers, Sequences, FiniteSets, TLC

VARIABLES
    \* ---- Spec: the sort
    pc,                   \* position of the host program
    uniforms,             \* UniformBuffer.data: particle_count, num_bins
    ps,                   \* the ParticleSystem struct's own fields
    rs,                   \* the RadixSort struct's own fields
    buffers,              \* the contents of the device buffers, by name
    encoder,              \* commands recorded on the frame's CommandEncoder
    queue,                \* commands submitted and not yet executed
    stage,                \* the last thing the device did
    pending,              \* reorder invocations that have not run yet
    frame,                \* number of frames recorded so far
    at_count,             \* the per-bin tables as the latest Count found them
    claims,               \* the slots claimed so far by the running Reorder
    \* ---- SpecBin: BinConfig::new
    bc_args,              \* <<raw_width, raw_height, x_scale, y_scale>>
    overflow_checks,      \* the build panics on integer overflow (debug)
    bc_ret,               \* what BinConfig::new returned
    \* ---- SpecCompute: Compute::new
    cn_args,              \* [buffers, buffer_sizes, uniform_buffer, cs_mod]
    cn_ret,               \* what Compute::new returned
    \* ---- SpecFrame: the frame loop of main.rs
    app_pc,               \* position of the thread that runs update and view
    updates,              \* number of calls of update so far
    model_uniforms,       \* Model.uniforms, as the sliders left it
    command_encoder,      \* commands recorded by the running update
    swap_chain_queue,     \* commands submitted and not yet executed
    device,               \* the contents of the device buffers
    submits,              \* per frame, how often its stream was submitted
    dispatched,           \* per frame, the uniforms its dispatch read
    read_positions_future, \* per frame, the position of its read-back task
    map_async,            \* per frame, the result of its buffer mapping
    mutex,                \* who holds the lock of Model.positions
    model_positions,      \* the contents of Model.positions
    drawn                 \* the positions that view drew last

sortVars == <<pc, uniforms, ps, rs, buffers, encoder, queue, stage, pending,
              frame, at_count, claims>>
binVars == <<bc_args, overflow_checks, bc_ret>>
compVars == <<cn_args, cn_ret>>
mainVars == <<app_pc, updates, model_uniforms, command_encoder,
              swap_chain_queue, device, submits, dispatched,
              read_positions_future, map_async, mutex, model_positions,
              drawn>>
vars == <<sortVars, binVars, compVars, mainVars>>

None == [tag |-> "None"]
Some(x) == [tag |-> "Some", val |-> x]

-----------------------------------------------------------------------------
(* Bounds of the model.                                                    *)

MaxParticles == 3
MaxBins == 3
MaxFrames == 2
MaxDim == 3
MaxScale == 2
MaxBuffers == 2
MaxSize == 1

-----------------------------------------------------------------------------
(* u64 arithmetic.  A u64 is the set of the positions of its one bits, so  *)
(* that values up to 2^64 - 1 and their overflow can be written down.      *)

U64Bits == 64

RECURSIVE Pow2(_)
Pow2(n) == IF n = 0 THEN 1 ELSE 2 * Pow2(n - 1)

\* the bits of a natural number below 2^31
BitsOf(n) == {i \in 0..30 : (n \div Pow2(i)) % 2 = 1}

MaxBit(bits) == CHOOSE b \in bits : \A c \in bits : c <= b

Fits(bits, w) == \A b \in bits : b < w
Wrap(bits, w) == {b \in bits : b < w}

ShiftLeft(bits, k) == {b + k : b \in bits}
ShiftRight(bits, k) == {b - k : b \in {c \in bits : c >= k}}

RECURSIVE BitsAdd(_, _)
\* exact sum: carry-save until no carry is left
BitsAdd(a, b) ==
    IF b = {} THEN a
    ELSE BitsAdd((a \ b) \cup (b \ a), ShiftLeft(a \cap b, 1))

RECURSIVE BitsMul(_, _)
\* exact product: shift and add over the bits of b
BitsMul(a, b) ==
    IF b = {} THEN {}
    ELSE LET k == CHOOSE x \in b : TRUE
         IN  BitsAdd(ShiftLeft(a, k), BitsMul(a, b \ {k}))

\* the natural number whose bits are `bits`, for values below 2^31
NatOf(bits) ==
    LET RECURSIVE Sum(_)
        Sum(S) == IF S = {} THEN 0
                  ELSE LET b == CHOOSE x \in S : TRUE
                       IN  Pow2(b) + Sum(S \ {b})
    IN  Sum(bits)

\* `x as u32` of a u64: the low 32 bits
U32Bits == 32
AsU32(bits) == Wrap(bits, U32Bits)

\* the result of an arithmetic operation whose exact value is `exact`:
\* a panic when the build checks overflow and the value does not fit,
\* the value modulo 2^64 otherwise
Checked(exact, checks) ==
    IF Fits(exact, U64Bits) THEN [panic |-> FALSE, val |-> exact]
    ELSE IF checks THEN [panic |-> TRUE, val |-> {}]
    ELSE [panic |-> FALSE, val |-> Wrap(exact, U64Bits)]

\* u64::next_power_of_two: the smallest power of two >= x; on overflow a
\* panic in a checked build and 0 otherwise
NextPowerOfTwoExact(x) ==
    IF x = {} THEN {0}
    ELSE IF Cardinality(x) = 1 THEN x
    ELSE {MaxBit(x) + 1}

NextPowerOfTwo(x, checks) ==
    LET e == NextPowerOfTwoExact(x)
    IN  IF Fits(e, U64Bits) THEN [panic |-> FALSE, val |-> e]
        ELSE IF checks THEN [panic |-> TRUE, val |-> {}]
        ELSE [panic |-> FALSE, val |-> {}]

-----------------------------------------------------------------------------
(* BinConfig (radix_sort.rs).                                              *)

RECURSIVE TimesTwo(_, _, _)
\* `while i < scale { grid *= 2; i += 1 }`: n doublings of g = [panic, val]
TimesTwo(g, n, checks) ==
    IF g.panic \/ n = 0 THEN g
    ELSE TimesTwo(Checked(ShiftLeft(g.val, 1), checks), n - 1, checks)

RECURSIVE DivTwo(_, _)
\* `while i > scale { grid /= 2; i -= 1 }`: n integer halvings of g
DivTwo(g, n) ==
    IF g.panic \/ n = 0 THEN g
    ELSE DivTwo([panic |-> FALSE, val |-> ShiftRight(g.val, 1)], n - 1)

ScaleGridOneHalvingShort(g, scale, checks) ==
    IF scale > 0 THEN TimesTwo(g, scale, checks)
    ELSE IF scale < 0 THEN DivTwo(g, (0 - scale) - 1)
    ELSE g

\* the two `if scale > 0 {..}` / `if scale < 0 {..}` blocks of one axis
ScaleGrid(g, scale, checks) ==
    IF scale > 0 THEN TimesTwo(g, scale, checks)
    ELSE IF scale < 0 THEN DivTwo(g, 0 - scale)
    ELSE g

\* `a as f64 / b as f64`, kept as the pair it is the quotient of
Ratio(a, b) == [num |-> a, den |-> b]

BinConfigNew(raw_width, raw_height, x_scale, y_scale, checks) ==
    LET grid_x == ScaleGrid(NextPowerOfTwo(raw_width, checks), x_scale, checks)
        grid_y == ScaleGrid(NextPowerOfTwo(raw_height, checks), y_scale, checks)
        num_bins == IF grid_x.panic \/ grid_y.panic
                    THEN [panic |-> TRUE, val |-> {}]
                    ELSE Checked(BitsMul(grid_x.val, grid_y.val), checks)
    IN  IF num_bins.panic
        THEN [panic |-> TRUE]
        ELSE [panic |-> FALSE,
              grid_x |-> grid_x.val,
              grid_y |-> grid_y.val,
              bin_x |-> Ratio(raw_width, grid_x.val),
              bin_y |-> Ratio(raw_height, grid_y.val),
              num_bins |-> num_bins.val]

\* BinConfig::update_uniforms: the five assignments to uniforms.data; the
\* other fields of the uniforms stay.  The two bin sizes are kept as the
\* ratios they are computed from.
BinConfigUpdateUniforms(self, data) ==
    [particle_count |-> data.particle_count,
     num_bins_x |-> NatOf(AsU32(self.grid_x)),
     num_bins_y |-> NatOf(AsU32(self.grid_y)),
     bin_size_x |-> self.bin_x,
     bin_size_y |-> self.bin_y,
     num_bins |-> NatOf(AsU32(self.num_bins))]

\* the viewport sizes and scale exponents the call is tried on
DimInputs ==
    {BitsOf(n) : n \in 0..MaxDim} \cup
    {BitsOf(1080), BitsOf(1920), {62}, {63}, {63, 0}}
ScaleInputs == ((0 - MaxScale)..MaxScale) \cup {-12, -10, -9, 1 - U64Bits, U64Bits}

BinIdle ==
    /\ bc_args = <<{}, {}, 0, 0>>
    /\ overflow_checks = FALSE
    /\ bc_ret = None

BinInit ==
    /\ bc_args \in DimInputs \X DimInputs \X ScaleInputs \X ScaleInputs
    /\ overflow_checks \in BOOLEAN
    /\ bc_ret = None

\* one call of BinConfig::new; a panic ends the program
CallBinConfigNew ==
    /\ bc_ret = None
    /\ bc_ret' = Some(BinConfigNew(bc_args[1], bc_args[2], bc_args[3],
                                   bc_args[4], overflow_checks))
    /\ UNCHANGED <<bc_args, overflow_checks, sortVars, compVars, mainVars>>

-----------------------------------------------------------------------------
(* Compute (compute.rs).                                                   *)

SeqsUpTo(S, n) == UNION {[1..k -> S] : k \in 0..n}

Ok(x) == [tag |-> "Ok", val |-> x]
Err(e) == [tag |-> "Err", err |-> e]
Panicked == [tag |-> "Panic"]

\* the storage bindings the loop over `b.iter().enumerate()` adds, in order
StorageBindings(b, s) ==
    [i \in 1..Len(b) |-> [kind |-> "storage", buffer |-> b[i], size |-> s[i]]]

\* the uniform binding added after them, when there is a uniform buffer
UniformBindings(u) ==
    IF u.tag = "Some" THEN <<[kind |-> "uniform", buffer |-> u.val]>> ELSE <<>>

ComputeNewLengthsUnchecked(bufs, buffer_sizes, uniform_buffer, cs_mod) ==
    IF bufs.tag = "Some" /\ buffer_sizes.tag # "Some"
    THEN Err("MissingBufferSizes")
    ELSE IF bufs.tag = "Some"
            /\ \E i \in 1..Len(bufs.val) :
                  i > Len(buffer_sizes.val) \/ buffer_sizes.val[i] = 0
    THEN Panicked
    ELSE Ok([bind_group |->
               (IF bufs.tag = "Some"
                THEN StorageBindings(bufs.val, buffer_sizes.val)
                ELSE <<>>) \o UniformBindings(uniform_buffer),
            pipeline |-> cs_mod])

ComputeNewSizesRequired(bufs, buffer_sizes, uniform_buffer, cs_mod) ==
    IF buffer_sizes.tag # "Some"
    THEN Err("MissingBufferSizes")
    ELSE IF bufs.tag = "Some" /\ Len(bufs.val) # Len(buffer_sizes.val)
    THEN Err("BufferCountAndBufferSizeCountMismatch")
    ELSE IF bufs.tag = "Some"
            /\ \E i \in 1..Len(bufs.val) : buffer_sizes.val[i] = 0
    THEN Panicked
    ELSE Ok([bind_group |->
               (IF bufs.tag = "Some"
                THEN StorageBindings(bufs.val, buffer_sizes.val)
                ELSE <<>>) \o UniformBindings(uniform_buffer),
            pipeline |-> cs_mod])

\* Compute::new: the typed errors, the panic of
\* `NonZeroU64::new(buffer_size).unwrap()` on a size of 0, or the kernel
ComputeNew(bufs, buffer_sizes, uniform_buffer, cs_mod) ==
    IF bufs.tag = "Some" /\ buffer_sizes.tag # "Some"
    THEN Err("MissingBufferSizes")
    ELSE IF bufs.tag = "Some" /\ Len(bufs.val) # Len(buffer_sizes.val)
    THEN Err("BufferCountAndBufferSizeCountMismatch")
    ELSE IF bufs.tag = "Some"
            /\ \E i \in 1..Len(bufs.val) : buffer_sizes.val[i] = 0
    THEN Panicked
    ELSE Ok([bind_group |->
               (IF bufs.tag = "Some"
                THEN StorageBindings(bufs.val, buffer_sizes.val)
                ELSE <<>>) \o UniformBindings(uniform_buffer),
            pipeline |-> cs_mod])

Opt(S) == {None} \cup {Some(x) : x \in S}

ComputeInputs ==
    [buffers : Opt(SeqsUpTo({"position_out_buffer", "prefix_sum_buffer"},
                            MaxBuffers)),
     buffer_sizes : Opt(SeqsUpTo(0..MaxSize, MaxBuffers)),
     uniform_buffer : Opt({"uniforms.buffer"}),
     cs_mod : {"count.comp"}]

CompIdle ==
    /\ cn_args = [buffers |-> None, buffer_sizes |-> None,
                  uniform_buffer |-> None, cs_mod |-> "count.comp"]
    /\ cn_ret = None

CompInit ==
    /\ cn_args \in ComputeInputs
    /\ cn_ret = None

\* one call of Compute::new
CallComputeNew ==
    /\ cn_ret = None
    /\ cn_ret' = Some(ComputeNew(cn_args.buffers, cn_args.buffer_sizes,
                                 cn_args.uniform_buffer, cn_args.cs_mod))
    /\ UNCHANGED <<cn_args, sortVars, binVars, mainVars>>

-----------------------------------------------------------------------------
(* ParticleSystem and RadixSort: construction (particles.rs, radix_sort.rs)*)

SizeOfVec2 == 8
SizeOfUint == 4

position_out_buffer == buffers["position_out_buffer"]
position_in_buffer == buffers["position_in_buffer"]
velocity_out_buffer == buffers["velocity_out_buffer"]
velocity_in_buffer == buffers["velocity_in_buffer"]
bin_count_buffer == buffers["bin_count_buffer"]
prefix_sum_buffer == buffers["prefix_sum_buffer"]

BufferNames == {"position_out_buffer", "position_in_buffer",
                "velocity_out_buffer", "velocity_in_buffer",
                "bin_count_buffer", "prefix_sum_buffer"}
TableNames == {"bin_count_buffer", "prefix_sum_buffer"}

\* `particle_count as usize * size_of::<Vec2>()`
ParticleBufferSize(u) == u.particle_count * SizeOfVec2

\* `uniforms.data.num_bins as usize * size_of::<uint>()`
BinBufferSize(u) == u.num_bins * SizeOfUint

\* `vec![0_u8; buffer_size]` read as u32 slots
Zeros(u) == [b \in 1..u.num_bins |-> 0]

\* the update kernel of the particle system: in, out, velocity (the one
\* velocity buffer of particles.rs is the velocity_out_buffer of the sort)
ParticleSystemCompute(u) ==
    ComputeNew(Some(<<"position_in_buffer", "position_out_buffer",
                      "velocity_out_buffer">>),
               Some(<<ParticleBufferSize(u), ParticleBufferSize(u),
                      ParticleBufferSize(u)>>),
               Some("uniforms.buffer"), "update.comp")

\* ParticleSystem::new without the contents of the buffers; `.unwrap()`
\* turns an error of Compute::new into a panic
ParticleSystemNew(u) ==
    LET compute == ParticleSystemCompute(u)
    IN  IF compute.tag = "Ok"
        THEN Ok([buffer_size |-> ParticleBufferSize(u),
                 compute |-> compute.val])
        ELSE Panicked

\* `count_buffers`
CountBuffers == <<"position_out_buffer", "prefix_sum_buffer">>

\* `scan_buffers`
ScanBuffers == <<"prefix_sum_buffer">>

\* `reorder_buffers`
ReorderBuffers == <<"position_out_buffer", "position_in_buffer",
                    "velocity_out_buffer", "velocity_in_buffer",
                    "prefix_sum_buffer", "bin_count_buffer">>

\* RadixSort::new; `.expect(..)` turns an error of Compute::new into a panic
RadixSortNew(u, particle_system) ==
    LET buffer_size == BinBufferSize(u)
        count == ComputeNew(Some(CountBuffers),
                            Some(<<particle_system.buffer_size, buffer_size>>),
                            Some("uniforms.buffer"), "count.comp")
        scan == ComputeNew(Some(ScanBuffers), Some(<<buffer_size>>),
                           Some("uniforms.buffer"), "scan.comp")
        reorder == ComputeNew(Some(ReorderBuffers),
                              Some(<<particle_system.buffer_size,
                                     particle_system.buffer_size,
                                     particle_system.buffer_size,
                                     particle_system.buffer_size,
                                     buffer_size, buffer_size>>),
                              Some("uniforms.buffer"), "reorder.comp")
    IN  IF count.tag = "Ok" /\ scan.tag = "Ok" /\ reorder.tag = "Ok"
        THEN Ok([count |-> count.val, scan |-> scan.val,
                 reorder |-> reorder.val, buffer_size |-> buffer_size,
                 num_bins |-> u.num_bins,
                 particle_count |-> u.particle_count])
        ELSE Panicked

\* a particle's position is the cell of the bin grid it lies in (a position
\* outside of the viewport is clamped to an edge cell by BinIndex, and sorts
\* like a position in that cell)
Positions(u) == 0..(u.num_bins - 1)

NoStruct == [tag |-> "None"]
NoBuffers == [n \in BufferNames |-> <<>>]

SortIdle ==
    /\ pc = "off"
    /\ uniforms = [particle_count |-> 0, num_bins |-> 0]
    /\ ps = NoStruct
    /\ rs = NoStruct
    /\ buffers = NoBuffers
    /\ encoder = <<>>
    /\ queue = <<>>
    /\ stage = "idle"
    /\ pending = {}
    /\ frame = 0
    /\ at_count = None
    /\ claims = {}

SortInit ==
    /\ pc = "start"
    /\ uniforms \in [particle_count : 0..MaxParticles, num_bins : 0..MaxBins]
    /\ ps = NoStruct
    /\ rs = NoStruct
    /\ buffers = NoBuffers
    /\ encoder = <<>>
    /\ queue = <<>>
    /\ stage = "idle"
    /\ pending = {}
    /\ frame = 0
    /\ at_count = None
    /\ claims = {}

\* model(): ParticleSystem::new, then RadixSort::new.  The two position
\* buffers start with the same random positions, the two tables with zeros.
Setup ==
    /\ pc = "start"
    /\ LET particle_system == ParticleSystemNew(uniforms)
           radix_sort == IF particle_system.tag = "Ok"
                         THEN RadixSortNew(uniforms, particle_system.val)
                         ELSE Panicked
       IN  IF radix_sort.tag = "Ok"
           THEN /\ pc' = "ready"
                /\ ps' = particle_system.val
                /\ rs' = radix_sort.val
                /\ \E positions \in
                       [1..uniforms.particle_count -> Positions(uniforms)] :
                     LET particles ==
                             [i \in 1..uniforms.particle_count |->
                                [id |-> i, pos |-> positions[i]]]
                         velocities ==
                             [i \in 1..uniforms.particle_count |-> [id |-> i]]
                     IN  buffers' =
                           [n \in BufferNames |->
                              CASE n \in {"position_out_buffer",
                                          "position_in_buffer"} -> particles
                                [] n \in {"velocity_out_buffer",
                                          "velocity_in_buffer"} -> velocities
                                [] OTHER -> Zeros(uniforms)]
           ELSE /\ pc' = "panicked"
                /\ UNCHANGED <<ps, rs, buffers>>
    /\ UNCHANGED <<uniforms, encoder, queue, stage, pending, frame, at_count,
                   claims, binVars, compVars, mainVars>>

-----------------------------------------------------------------------------
(* Recording a frame (compute.rs, radix_sort.rs, particles.rs).            *)

\* Compute::compute: one compute pass with one dispatch of num_groups groups
ComputeCompute(kernel, num_groups) ==
    [op |-> "dispatch", pipeline |-> kernel.pipeline,
     bind_group |-> kernel.bind_group, groups |-> num_groups]

RadixSortUpdateScanLast(r) ==
    <<ComputeCompute(r.count, r.particle_count),
      ComputeCompute(r.reorder, r.particle_count),
      ComputeCompute(r.scan, r.num_bins)>>

\* RadixSort::update: what it appends to the encoder (the call of
\* clear_buffers is commented out, so no copy of zeros is recorded)
RadixSortUpdate(r) ==
    <<ComputeCompute(r.count, r.particle_count),
      ComputeCompute(r.scan, r.num_bins),
      ComputeCompute(r.reorder, r.particle_count)>>

CopyPositionsFromInToOut(particle_system) ==
    <<[op |-> "copy", src |-> "position_in_buffer",
       dst |-> "position_out_buffer", size |-> particle_system.buffer_size]>>

\* ParticleSystem::copy_positions_from_out_to_in
CopyPositionsFromOutToIn(particle_system) ==
    <<[op |-> "copy", src |-> "position_out_buffer",
       dst |-> "position_in_buffer", size |-> particle_system.buffer_size]>>

\* one frame of the host: a fresh encoder, RadixSort::update, and then the
\* copy of the out positions over the in positions or not
RecordFrame ==
    /\ pc = "ready"
    /\ frame < MaxFrames
    /\ \E copy \in BOOLEAN :
         encoder' = RadixSortUpdate(rs) \o
                    (IF copy THEN CopyPositionsFromOutToIn(ps) ELSE <<>>)
    /\ frame' = frame + 1
    /\ pc' = "recorded"
    /\ UNCHANGED <<uniforms, ps, rs, buffers, queue, stage, pending, at_count,
                   claims, binVars, compVars, mainVars>>

\* queue.submit(Some(encoder.finish()))
Submit ==
    /\ pc = "recorded"
    /\ queue' = encoder
    /\ encoder' = <<>>
    /\ pc' = "submitted"
    /\ UNCHANGED <<uniforms, ps, rs, buffers, stage, pending, frame, at_count,
                   claims, binVars, compVars, mainVars>>

\* the device has run every command of the frame
FrameDone ==
    /\ pc = "submitted"
    /\ queue = <<>>
    /\ pc' = "ready"
    /\ UNCHANGED <<uniforms, ps, rs, buffers, encoder, queue, stage, pending,
                   frame, at_count, claims, binVars, compVars, mainVars>>

-----------------------------------------------------------------------------
(* The device: the commands of the queue run in the order of submission.   *)
(* What each shader does with its bindings follows the design document:    *)
(*   count    binding 1: positions read; binding 2: table atomically       *)
(*            incremented at each particle's bin;                          *)
(*   scan     binding 1: table replaced by its exclusive prefix sum;       *)
(*   reorder  bindings 1, 3: positions and velocities read; bindings 2, 4: *)
(*            positions and velocities written; binding 5: base offsets;   *)
(*            binding 6: per-bin write cursor, atomically incremented.     *)

\* the bin of a position, clamped to the valid range
BinIndex(pos, num_bins) ==
    IF pos < 0 THEN 0 ELSE IF pos >= num_bins THEN num_bins - 1 ELSE pos

RECURSIVE SumTo(_, _)
SumTo(table, n) == IF n = 0 THEN 0 ELSE table[n] + SumTo(table, n - 1)

\* prefix[i] = sum of count[0..i)
ExclusiveScan(table) == [b \in 1..Len(table) |-> SumTo(table, b - 1)]

\* the table after every invocation of count has incremented its bin's slot
Counted(table, positions, groups, num_bins) ==
    [b \in 1..Len(table) |->
       table[b] + Cardinality({i \in 1..groups :
                                 /\ i <= Len(positions)
                                 /\ BinIndex(positions[i].pos, num_bins) + 1 = b})]

IsDispatch(cmd, shader) == cmd.op = "dispatch" /\ cmd.pipeline = shader

ExecCount ==
    /\ queue # <<>>
    /\ IsDispatch(Head(queue), "count.comp")
    /\ LET cmd == Head(queue)
           src == cmd.bind_group[1].buffer
           table == cmd.bind_group[2].buffer
       IN  /\ at_count' = Some([n \in TableNames |-> buffers[n]])
           /\ buffers' = [buffers EXCEPT
                            ![table] = Counted(buffers[table], buffers[src],
                                               cmd.groups, uniforms.num_bins)]
    /\ stage' = "counted"
    /\ queue' = Tail(queue)
    /\ UNCHANGED <<pc, uniforms, ps, rs, encoder, pending, frame,
                   claims, binVars, compVars, mainVars>>

ExecScan ==
    /\ queue # <<>>
    /\ IsDispatch(Head(queue), "scan.comp")
    /\ LET table == Head(queue).bind_group[1].buffer
       IN  buffers' = [buffers EXCEPT ![table] = ExclusiveScan(buffers[table])]
    /\ stage' = "scanned"
    /\ queue' = Tail(queue)
    /\ UNCHANGED <<pc, uniforms, ps, rs, encoder, pending, frame, at_count,
                   claims, binVars, compVars, mainVars>>

\* the reorder dispatch starts: one invocation per work group
ReorderStart ==
    /\ queue # <<>>
    /\ IsDispatch(Head(queue), "reorder.comp")
    /\ stage # "reordering"
    /\ pending' = 1..Head(queue).groups
    /\ stage' = "reordering"
    /\ claims' = {}
    /\ UNCHANGED <<pc, uniforms, ps, rs, buffers, encoder, queue, frame,
                   at_count, binVars, compVars, mainVars>>

\* where a write at 0-based index slot of a buffer of len elements lands: in
\* range at slot; out of range the bounds check of the device either skips
\* the write (0) or clamps the index to the last element
WriteTargets(slot, len) ==
    IF slot < len THEN {slot + 1} ELSE {0, len}

\* what invocation i claims: the offset is the value the atomic increment of
\* its bin's cursor returns, the slot the base offset of the bin plus it
Claim(i) ==
    LET bg == Head(queue).bind_group
        b == BinIndex(buffers[bg[1].buffer][i].pos, uniforms.num_bins) + 1
    IN  [particle |-> i, bin |-> b - 1,
         offset |-> buffers[bg[6].buffer][b],
         slot |-> buffers[bg[5].buffer][b] + buffers[bg[6].buffer][b]]

\* one invocation of reorder: claim the next slot of the particle's bin with
\* an atomic increment of the bin's cursor and write the particle there
ReorderInvocation(i) ==
    /\ stage = "reordering"
    /\ i \in pending
    /\ LET bg == Head(queue).bind_group
           src == buffers[bg[1].buffer]
           vsrc == buffers[bg[3].buffer]
           b == BinIndex(src[i].pos, uniforms.num_bins) + 1
           slot == buffers[bg[5].buffer][b] + buffers[bg[6].buffer][b]
           claimed == [buffers EXCEPT ![bg[6].buffer][b] = @ + 1]
       IN  \E t \in WriteTargets(slot, Len(buffers[bg[2].buffer])) :
             buffers' = IF t = 0 THEN claimed
                        ELSE [claimed EXCEPT ![bg[2].buffer][t] = src[i],
                                             ![bg[4].buffer][t] = vsrc[i]]
    /\ pending' = pending \ {i}
    /\ claims' = claims \cup {Claim(i)}
    /\ UNCHANGED <<pc, uniforms, ps, rs, encoder, queue, stage, frame,
                   at_count, binVars, compVars, mainVars>>

ReorderFinish ==
    /\ stage = "reordering"
    /\ pending = {}
    /\ stage' = "reordered"
    /\ queue' = Tail(queue)
    /\ claims' = {}
    /\ UNCHANGED <<pc, uniforms, ps, rs, buffers, encoder, pending, frame,
                   at_count, binVars, compVars, mainVars>>

\* copy_buffer_to_buffer of the first `size` bytes of the source over the
\* destination
ExecCopy ==
    /\ queue # <<>>
    /\ Head(queue).op = "copy"
    /\ LET src == buffers[Head(queue).src]
           dst == buffers[Head(queue).dst]
           n == Head(queue).size \div SizeOfVec2
       IN  buffers' = [buffers EXCEPT
                         ![Head(queue).dst] =
                             [i \in 1..Len(dst) |->
                                IF i <= n THEN src[i] ELSE dst[i]]]
    /\ stage' = "copied"
    /\ queue' = Tail(queue)
    /\ UNCHANGED <<pc, uniforms, ps, rs, encoder, pending, frame, at_count,
                   claims, binVars, compVars, mainVars>>

-----------------------------------------------------------------------------
(* The frame loop (main.rs): update records and submits one command stream *)
(* per frame and spawns a task that reads the positions back; view draws   *)
(* the positions the tasks have stored.  The compute shader (comp.spv) is  *)
(* not part of the sources: a dispatch is modelled as one simulation step  *)
(* over the whole position buffer, and the contents of a position buffer   *)
(* as the number of steps that produced it.                                *)

PARTICLE_COUNT == 5000

\* the values update_ui can leave in Model.uniforms
UniformValues == {0, 1}

Frames == 1..MaxFrames

\* device buffers: the three of Compute and the two update creates per frame
uniform_buffer == <<"uniform_buffer", 0>>
position_buffer_in == <<"position_buffer_in", 0>>
position_buffer_out == <<"position_buffer_out", 0>>
new_uniform_buffer(f) == <<"new_uniform_buffer", f>>
read_position_buffer(f) == <<"read_position_buffer", f>>
DeviceBuffers ==
    {uniform_buffer, position_buffer_in, position_buffer_out}
    \cup {new_uniform_buffer(f) : f \in Frames}
    \cup {read_position_buffer(f) : f \in Frames}

\* the holders of the mutex of Model.positions
Free == <<"free", 0>>
View == <<"view", 0>>
Task(f) == <<"read_positions_future", f>>

MainIdle ==
    /\ app_pc = "off"
    /\ updates = 0
    /\ model_uniforms = 0
    /\ command_encoder = <<>>
    /\ swap_chain_queue = <<>>
    /\ device = [b \in DeviceBuffers |-> 0]
    /\ submits = [f \in Frames |-> 0]
    /\ dispatched = [f \in Frames |-> None]
    /\ read_positions_future = [f \in Frames |-> "none"]
    /\ map_async = [f \in Frames |-> None]
    /\ mutex = Free
    /\ model_positions = 0
    /\ drawn = None

\* the state `model` returns: in, out and Model.positions hold the same
\* initial positions, the uniform buffer the uniforms of create_uniforms
MainInit ==
    /\ app_pc = "update"
    /\ updates = 0
    /\ model_uniforms = 0
    /\ command_encoder = <<>>
    /\ swap_chain_queue = <<>>
    /\ device = [b \in DeviceBuffers |-> 0]
    /\ submits = [f \in Frames |-> 0]
    /\ dispatched = [f \in Frames |-> None]
    /\ read_positions_future = [f \in Frames |-> "none"]
    /\ map_async = [f \in Frames |-> None]
    /\ mutex = Free
    /\ model_positions = 0
    /\ drawn = None

CopyBufferToBuffer(f, src, dst) ==
    [op |-> "copy", frame |-> f, src |-> src, dst |-> dst]
Dispatch(f, groups) ==
    [op |-> "dispatch", frame |-> f, groups |-> groups]

UpdateEncoderDispatchFirst(f) ==
    <<Dispatch(f, PARTICLE_COUNT),
      CopyBufferToBuffer(f, new_uniform_buffer(f), uniform_buffer),
      CopyBufferToBuffer(f, position_buffer_out, position_buffer_in),
      CopyBufferToBuffer(f, position_buffer_out, read_position_buffer(f))>>

\* the commands update records on its encoder, in the order of the calls
UpdateEncoder(f) ==
    <<CopyBufferToBuffer(f, new_uniform_buffer(f), uniform_buffer),
      Dispatch(f, PARTICLE_COUNT),
      CopyBufferToBuffer(f, position_buffer_out, position_buffer_in),
      CopyBufferToBuffer(f, position_buffer_out, read_position_buffer(f))>>

\* update, up to encoder.finish(): update_ui changes the uniforms, the read
\* buffer and the staging buffer with the uniforms are created, the stream
\* is recorded
UpdateRecord ==
    /\ app_pc = "update"
    /\ updates < MaxFrames
    /\ updates' = updates + 1
    /\ \E value \in UniformValues :
          /\ model_uniforms' = value
          /\ device' = [device EXCEPT ![new_uniform_buffer(updates + 1)] = value,
                                      ![read_position_buffer(updates + 1)] = 0]
    /\ command_encoder' = UpdateEncoder(updates + 1)
    /\ app_pc' = "recorded"
    /\ UNCHANGED <<swap_chain_queue, submits, dispatched,
                   read_positions_future, map_async, mutex, model_positions, drawn,
                   sortVars, binVars, compVars>>

\* window.swap_chain_queue().submit(Some(encoder.finish()))
UpdateSubmit ==
    /\ app_pc = "recorded"
    /\ swap_chain_queue' = swap_chain_queue \o command_encoder
    /\ command_encoder' = <<>>
    /\ submits' = [submits EXCEPT ![updates] = @ + 1]
    /\ app_pc' = "submitted"
    /\ UNCHANGED <<updates, model_uniforms, device, dispatched,
                   read_positions_future, map_async, mutex, model_positions, drawn,
                   sortVars, binVars, compVars>>

\* model.threadpool.spawn_ok(read_positions_future); update returns and the
\* application calls view next
UpdateSpawn ==
    /\ app_pc = "submitted"
    /\ read_positions_future' = [read_positions_future EXCEPT ![updates] = "spawned"]
    /\ app_pc' = "view"
    /\ UNCHANGED <<updates, model_uniforms, command_encoder, swap_chain_queue,
                   device, submits, dispatched, map_async, mutex, model_positions,
                   drawn, sortVars, binVars, compVars>>

\* the device executes a copy_buffer_to_buffer
DeviceCopy ==
    /\ swap_chain_queue # <<>>
    /\ Head(swap_chain_queue).op = "copy"
    /\ device' = [device EXCEPT ![Head(swap_chain_queue).dst] =
                                   device[Head(swap_chain_queue).src]]
    /\ swap_chain_queue' = Tail(swap_chain_queue)
    /\ UNCHANGED <<app_pc, updates, model_uniforms, command_encoder, submits,
                   dispatched, read_positions_future, map_async, mutex,
                   model_positions, drawn, sortVars, binVars, compVars>>

\* the device executes the dispatch: one step from `in` to `out`, under the
\* uniforms the live uniform buffer holds at that moment
DeviceDispatch ==
    /\ swap_chain_queue # <<>>
    /\ Head(swap_chain_queue).op = "dispatch"
    /\ device' = [device EXCEPT ![position_buffer_out] =
                                   device[position_buffer_in] + 1]
    /\ dispatched' = [dispatched EXCEPT ![Head(swap_chain_queue).frame] =
                                           Some(device[uniform_buffer])]
    /\ swap_chain_queue' = Tail(swap_chain_queue)
    /\ UNCHANGED <<app_pc, updates, model_uniforms, command_encoder, submits,
                   read_positions_future, map_async, mutex, model_positions, drawn,
                   sortVars, binVars, compVars>>

\* the task is polled for the first time: slice.map_async(MapMode::Read)
MapAsyncRequest(f) ==
    /\ read_positions_future[f] = "spawned"
    /\ read_positions_future' = [read_positions_future EXCEPT ![f] = "mapping"]
    /\ UNCHANGED <<app_pc, updates, model_uniforms, command_encoder,
                   swap_chain_queue, device, submits, dispatched, map_async,
                   mutex, model_positions, drawn, sortVars, binVars, compVars>>

AfterMapAsyncIgnoringResult(result) == "lock"

\* `if let Ok(_) = slice.map_async(..).await { .. }`: where the task goes on
AfterMapAsync(result) ==
    IF result = "Ok" THEN "lock" ELSE "done"

\* the mapping resolves: with Ok once the device has executed the stream of
\* the frame, with Err (failed, cancelled) at any moment
MapAsyncResolve(f) ==
    /\ read_positions_future[f] = "mapping"
    /\ \E result \in {"Ok", "Err"} :
          /\ result = "Ok" =>
                \A i \in 1..Len(swap_chain_queue) : swap_chain_queue[i].frame # f
          /\ map_async' = [map_async EXCEPT ![f] = Some(result)]
          /\ read_positions_future' =
                [read_positions_future EXCEPT ![f] = AfterMapAsync(result)]
    /\ UNCHANGED <<app_pc, updates, model_uniforms, command_encoder,
                   swap_chain_queue, device, submits, dispatched, mutex,
                   model_positions, drawn, sortVars, binVars, compVars>>

MutexLockWithoutWaiting(who) ==
    mutex' = IF mutex = Free THEN who ELSE mutex

\* Mutex::lock: returns once the caller holds the mutex.  No holder panics,
\* so the lock is never poisoned and the result is always Ok.
MutexLock(who) ==
    /\ mutex = Free
    /\ mutex' = who

\* `if let Ok(mut positions) = positions.lock()` of the task
TaskLock(f) ==
    /\ read_positions_future[f] = "lock"
    /\ MutexLock(Task(f))
    /\ read_positions_future' = [read_positions_future EXCEPT ![f] = "write"]
    /\ UNCHANGED <<app_pc, updates, model_uniforms, command_encoder,
                   swap_chain_queue, device, submits, dispatched, map_async,
                   model_positions, drawn, sortVars, binVars, compVars>>

\* positions.copy_from_slice(slice) over the mapped range; the guard is
\* dropped at the end of the block
TaskWrite(f) ==
    /\ read_positions_future[f] = "write"
    /\ model_positions' = device[read_position_buffer(f)]
    /\ mutex' = IF mutex = Task(f) THEN Free ELSE mutex
    /\ read_positions_future' = [read_positions_future EXCEPT ![f] = "done"]
    /\ UNCHANGED <<app_pc, updates, model_uniforms, command_encoder,
                   swap_chain_queue, device, submits, dispatched, map_async,
                   drawn, sortVars, binVars, compVars>>

\* `if let Ok(positions) = model.positions.lock()` of view
ViewLock ==
    /\ app_pc = "view"
    /\ MutexLock(View)
    /\ app_pc' = "draw"
    /\ UNCHANGED <<updates, model_uniforms, command_encoder, swap_chain_queue,
                   device, submits, dispatched, read_positions_future,
                   map_async, model_positions, drawn, sortVars, binVars, compVars>>

\* the loop over positions.iter() that draws them; the guard is dropped and
\* view returns
ViewDraw ==
    /\ app_pc = "draw"
    /\ drawn' = Some(model_positions)
    /\ mutex' = IF mutex = View THEN Free ELSE mutex
    /\ app_pc' = "update"
    /\ UNCHANGED <<updates, model_uniforms, command_encoder, swap_chain_queue,
                   device, submits, dispatched, read_positions_future,
                   map_async, model_positions, sortVars, binVars, compVars>>

InitFrame == SortIdle /\ BinIdle /\ CompIdle /\ MainInit
NextFrame ==
    \/ UpdateRecord
    \/ UpdateSubmit
    \/ UpdateSpawn
    \/ DeviceCopy
    \/ DeviceDispatch
    \/ \E f \in Frames : MapAsyncRequest(f)
    \/ \E f \in Frames : MapAsyncResolve(f)
    \/ \E f \in Frames : TaskLock(f)
    \/ \E f \in Frames : TaskWrite(f)
    \/ ViewLock
    \/ ViewDraw
SpecFrame == InitFrame /\ [][NextFrame]_vars

-----------------------------------------------------------------------------
(* The specifications.                                                     *)

Init == SortInit /\ BinIdle /\ CompIdle /\ MainIdle

Next ==
    \/ Setup
    \/ RecordFrame
    \/ Submit
    \/ ExecCount
    \/ ExecScan
    \/ ReorderStart
    \/ \E i \in 1..MaxParticles : ReorderInvocation(i)
    \/ ReorderFinish
    \/ ExecCopy
    \/ FrameDone

Spec == Init /\ [][Next]_vars

InitBin == SortIdle /\ BinInit /\ CompIdle /\ MainIdle
NextBin == CallBinConfigNew
SpecBin == InitBin /\ [][NextBin]_vars

InitCompute == SortIdle /\ BinIdle /\ CompInit /\ MainIdle
NextCompute == CallComputeNew
SpecCompute == InitCompute /\ [][NextCompute]_vars

\* The sort kernels are built over the uniforms of the start, and the
\* program then rewrites the bin fields of the uniforms from a BinConfig, as
\* often as it likes.
ResizeDims == {BitsOf(1), BitsOf(MaxDim)}
ResizeScales == {0 - 1, 0, 1, U32Bits \div 2}

\* bin_config = BinConfig::new(..); bin_config.update_uniforms(&mut uniforms)
UpdateUniforms ==
    /\ pc = "ready"
    /\ \E w, h \in ResizeDims, x_scale, y_scale \in ResizeScales :
          LET bin_config == BinConfigNew(w, h, x_scale, y_scale, overflow_checks)
          IN  /\ ~bin_config.panic
              /\ Fits(AsU32(bin_config.num_bins), U32Bits - 1)
              /\ uniforms' = BinConfigUpdateUniforms(bin_config, uniforms)
    /\ UNCHANGED <<pc, ps, rs, buffers, encoder, queue, stage, pending, frame,
                   at_count, claims, binVars, compVars, mainVars>>

InitUniforms == SortInit /\ BinIdle /\ CompIdle /\ MainIdle
NextUniforms == Setup \/ UpdateUniforms
SpecUniforms == InitUniforms /\ [][NextUniforms]_vars

-----------------------------------------------------------------------------
(* Claims about the sort, checked under Spec.                              *)

Dispatches(cmds) == SelectSeq(cmds, LAMBDA c : c.op = "dispatch")

\* C1: every call of RadixSort::update records exactly three dispatches, in
\* the order count, scan, reorder: after a frame has been recorded, the
\* encoder starts with these three and holds no other dispatch.
C1_UpdateRecordsCountScanReorder ==
    pc = "recorded" =>
        /\ Len(Dispatches(encoder)) = 3
        /\ Len(encoder) >= 3
        /\ encoder[1].op = "dispatch" /\ encoder[1].pipeline = "count.comp"
        /\ encoder[2].op = "dispatch" /\ encoder[2].pipeline = "scan.comp"
        /\ encoder[3].op = "dispatch" /\ encoder[3].pipeline = "reorder.comp"

\* C1, witness: the second frame of a run has been recorded
C1_Witness ==
    pc = "recorded" /\ frame = 2 /\ Len(Dispatches(encoder)) = 3

\* the table count increments and the table reorder uses as write cursor
CountTable == rs.count.bind_group[2].buffer
CursorTable == rs.reorder.bind_group[6].buffer

\* C2: whenever a Count stage starts, every slot of the table it increments
\* and of the write-cursor table of reorder is zero.
C2_TablesZeroWhenCountStarts ==
    at_count.tag = "Some" =>
        \A n \in {CountTable, CursorTable} :
            \A b \in 1..Len(at_count.val[n]) : at_count.val[n][b] = 0

Occurrences(buffer, id) == Cardinality({i \in 1..Len(buffer) : buffer[i].id = id})

\* C3: when Reorder has run, the destination position array has the length
\* of the source array and holds every particle id as often as the source.
C3_ReorderIsPermutation ==
    stage = "reordered" =>
        /\ Len(position_in_buffer) = Len(position_out_buffer)
        /\ \A id \in 1..MaxParticles :
              Occurrences(position_in_buffer, id)
                  = Occurrences(position_out_buffer, id)

\* the number of particles of the frame whose bin index is b (0-based)
BinPopulation(b) ==
    Cardinality({i \in 1..Len(position_out_buffer) :
                   BinIndex(position_out_buffer[i].pos, uniforms.num_bins) = b})

\* C4: when Scan has run, prefix[0] = 0 and prefix[i] = prefix[i-1] +
\* count[i-1] for the per-bin particle counts of this frame.
C4_ScanIsExclusivePrefixSum ==
    stage = "scanned" =>
        /\ prefix_sum_buffer[1] = 0
        /\ \A i \in 1..(uniforms.num_bins - 1) :
              prefix_sum_buffer[i + 1] = prefix_sum_buffer[i] + BinPopulation(i - 1)

\* C5: when Reorder has run, the particles of bin b occupy exactly the
\* destination indices prefix[b] .. prefix[b] + count[b] - 1.
C5_BinsAreContiguous ==
    stage = "reordered" =>
        \A b \in 0..(uniforms.num_bins - 1) :
            {i \in 0..(Len(position_in_buffer) - 1) :
               BinIndex(position_in_buffer[i + 1].pos, uniforms.num_bins) = b}
            = {i \in 0..(Len(position_in_buffer) - 1) :
                 /\ prefix_sum_buffer[b + 1] <= i
                 /\ i < prefix_sum_buffer[b + 1] + BinPopulation(b)}

\* C6: with particle_count = 0 the construction of the particle store and
\* of the sort kernels does not crash.
C6_ZeroParticlesNoCrash ==
    uniforms.particle_count = 0 /\ uniforms.num_bins >= 1 => pc # "panicked"

-----------------------------------------------------------------------------
(* Claims about BinConfig::new, checked under SpecBin.                     *)

Returned == bc_ret.tag = "Some" /\ ~bc_ret.val.panic

\* C7: the grid_x and grid_y that BinConfig::new returns are powers of two.
C7_GridIsPowerOfTwo ==
    Returned =>
        /\ Cardinality(bc_ret.val.grid_x) = 1
        /\ Cardinality(bc_ret.val.grid_y) = 1

\* C8: the num_bins that BinConfig::new returns is at least 1.
C8_NumBinsAtLeastOne ==
    Returned => bc_ret.val.num_bins # {}

\* a <= b, for numbers given by their bits
BitsLeq(a, b) == a = b \/ MaxBit((a \ b) \cup (b \ a)) \in b

PowersOfTwo == {{k} : k \in 0..U64Bits}

\* the smallest power of two that is at least x
NextPow2(x) ==
    CHOOSE p \in PowersOfTwo :
        /\ BitsLeq(x, p)
        /\ \A q \in PowersOfTwo : BitsLeq(x, q) => BitsLeq(p, q)

\* nextPow2(dim) doubled e times (e > 0), halved -e times (e < 0)
Scaled(dim, e) ==
    IF e >= 0 THEN ShiftLeft(NextPow2(dim), e)
    ELSE ShiftRight(NextPow2(dim), 0 - e)

\* a value of the axis does not fit in 64 bits
AxisOverflows(dim, e) ==
    \/ ~Fits(NextPow2(dim), U64Bits)
    \/ e > 0 /\ ~Fits(Scaled(dim, e), U64Bits)

-----------------------------------------------------------------------------
(* Claims about Compute::new, checked under SpecCompute.                   *)

BothLists == cn_args.buffers.tag = "Some" /\ cn_args.buffer_sizes.tag = "Some"

\* C10: with a buffer list and a size list of different lengths Compute::new
\* returns the mismatch error (and so no kernel); with lists of equal length
\* and sizes that are not zero it returns a kernel.
C10_MismatchIsAnError ==
    cn_ret.tag = "Some" /\ BothLists =>
        LET b == cn_args.buffers.val
            sz == cn_args.buffer_sizes.val
        IN  /\ Len(b) # Len(sz) =>
                cn_ret.val = Err("BufferCountAndBufferSizeCountMismatch")
            /\ Len(b) = Len(sz) /\ (\A i \in 1..Len(sz) : sz[i] > 0) =>
                cn_ret.val.tag = "Ok"

\* C10, witness: a call with more sizes than buffers has returned its error
C10_Witness ==
    /\ cn_ret.tag = "Some"
    /\ BothLists
    /\ Len(cn_args.buffers.val) < Len(cn_args.buffer_sizes.val)
    /\ cn_ret.val.tag = "Err"


\* C11: with a buffer list and no size list Compute::new returns the
\* MissingBufferSizes error; with no buffer list it returns a kernel and no
\* error, with or without a size list and with or without a uniform buffer.
C11_MissingSizesIsAnError ==
    cn_ret.tag = "Some" =>
        /\ cn_args.buffers.tag = "Some" /\ cn_args.buffer_sizes.tag = "None" =>
              cn_ret.val = Err("MissingBufferSizes")
        /\ cn_args.buffers.tag = "None" => cn_ret.val.tag = "Ok"

\* C11, witness: a call without a buffer list, without a size list and
\* without a uniform buffer has returned a kernel
C11_Witness ==
    /\ cn_ret.tag = "Some"
    /\ cn_args.buffers.tag = "None"
    /\ cn_args.buffer_sizes.tag = "None"
    /\ cn_args.uniform_buffer.tag = "None"
    /\ cn_ret.val.tag = "Ok"

-----------------------------------------------------------------------------
(* Further claims about the sort and the copy, checked under Spec.         *)

\* C12: the step in which the device runs the copy recorded by
\* copy_positions_from_out_to_in leaves the in positions equal to what the
\* out positions were, all particle_count of them, and changes neither the
\* out positions nor the velocities.
C12_CopyIsExact ==
    [][(queue # <<>> /\ Head(queue).op = "copy" /\ queue' # queue) =>
          /\ position_in_buffer' = position_out_buffer
          /\ Len(position_in_buffer') = uniforms.particle_count
          /\ position_out_buffer' = position_out_buffer
          /\ velocity_out_buffer' = velocity_out_buffer
          /\ velocity_in_buffer' = velocity_in_buffer]_vars

\* C12, witness: the copy has run over positions that Reorder had grouped
\* and that are not grouped in the out buffer
C12_Witness ==
    /\ stage = "copied"
    /\ Len(position_in_buffer) >= 2
    /\ position_in_buffer = position_out_buffer
    /\ position_in_buffer[1].pos > position_in_buffer[2].pos

\* C16: during Reorder no two particles claim the same destination slot, the
\* offsets claimed within one bin are pairwise different (each increment of a
\* cursor has one winner), and every claimed slot lies in [0, particle_count).
C16_ClaimedSlotsDistinctAndInRange ==
    /\ \A c, d \in claims : c.particle # d.particle => c.slot # d.slot
    /\ \A c, d \in claims :
          c.particle # d.particle /\ c.bin = d.bin => c.offset # d.offset
    /\ \A c \in claims : 0 <= c.slot /\ c.slot < uniforms.particle_count

\* the bin index of every element of a position buffer, in buffer order
BinsOf(buffer) ==
    [i \in 1..Len(buffer) |-> BinIndex(buffer[i].pos, uniforms.num_bins)]

\* C18: the out-to-in copy of a frame that also ran the sort leaves the
\* in buffer in the bin order that Reorder gave it.
C18_CopyKeepsSortedPositions ==
    [][(queue # <<>> /\ Head(queue).op = "copy" /\ queue' # queue
          /\ stage = "reordered") =>
              BinsOf(position_in_buffer') = BinsOf(position_in_buffer)]_vars

-----------------------------------------------------------------------------
(* Claims about the uniforms, checked under SpecUniforms.                  *)

\* C15: in every state after RadixSort::new, uniforms.num_bins equals the
\* number of u32 slots of bin_count_buffer and of prefix_sum_buffer and the
\* Scan dispatch size kept in RadixSort.num_bins, also after
\* BinConfig::update_uniforms has rewritten uniforms.num_bins.
C15_NumBinsMatchesTables ==
    pc = "ready" =>
        /\ Len(bin_count_buffer) = uniforms.num_bins
        /\ Len(prefix_sum_buffer) = uniforms.num_bins
        /\ rs.num_bins = uniforms.num_bins

-----------------------------------------------------------------------------
(* Claims about the frame loop of main.rs, checked under SpecFrame.        *)

\* C13: access to Model.positions is non-blocking on both sides: whenever
\* view is about to take the mutex it can go on at once, also while a task
\* holds it, and so can a task whose mapping has completed.
C13_AccessNeverWaits ==
    /\ app_pc = "view" => ENABLED ViewLock
    /\ \A f \in Frames :
          read_positions_future[f] = "lock" => ENABLED TaskLock(f)

\* C13, amended: both sides take the mutex with a blocking lock.  View goes
\* on only by acquiring the free mutex and draws the positions stored at
\* that moment while holding it; a task whose mapping succeeded goes on only
\* by acquiring the free mutex and then stores its frame's positions: it
\* never skips the write.
C13_AccessWaitsForMutex ==
    [][/\ (app_pc = "view" /\ app_pc' # "view") =>
              mutex = Free /\ mutex' = View /\ app_pc' = "draw"
       /\ (app_pc = "draw" /\ app_pc' # "draw") =>
              /\ mutex = View /\ mutex' = Free
              /\ drawn' = Some(model_positions)
       /\ \A f \in Frames :
             /\ (read_positions_future[f] = "lock"
                   /\ read_positions_future'[f] # "lock") =>
                    /\ mutex = Free /\ mutex' = Task(f)
                    /\ read_positions_future'[f] = "write"
             /\ (read_positions_future[f] = "write"
                   /\ read_positions_future'[f] # "write") =>
                    /\ mutex = Task(f) /\ mutex' = Free
                    /\ model_positions' = device[read_position_buffer(f)]]_vars

\* C13, witness: view is at its lock while a task holds the mutex, and
\* another task with a completed mapping is at its lock too
C13_Witness ==
    /\ app_pc = "view"
    /\ \E f, g \in Frames :
          /\ mutex = Task(f)
          /\ read_positions_future[g] = "lock"

\* C14: a read-back whose mapping failed leaves Model.positions and the mutex
\* as they are at every later step of its task, and the task just ends: the
\* process does not crash and the mutex is not poisoned.
C14_FailedMappingKeepsPositions ==
    [][\A f \in Frames :
          (map_async'[f] = Some("Err")
             /\ read_positions_future'[f] # read_positions_future[f]) =>
                /\ model_positions' = model_positions
                /\ mutex' = mutex
                /\ read_positions_future'[f] = "done"]_vars

\* C14, witness: the second read-back failed after the first had stored its
\* positions, and these are still what Model.positions holds
C14_Witness ==
    /\ MaxFrames >= 2
    /\ map_async[1] = Some("Ok") /\ read_positions_future[1] = "done"
    /\ map_async[2] = Some("Err") /\ read_positions_future[2] = "done"
    /\ model_positions = device[read_position_buffer(1)]
    /\ model_positions # 0

IsCopy(c, src, dst) == c.op = "copy" /\ c.src = src /\ c.dst = dst

\* C17: the stream of a frame is recorded in the order uniform copy,
\* dispatch, out-to-in copy, copy into the read buffer, and submitted once;
\* the mapping is requested only after the submit; every dispatch reads the
\* uniforms that update published in its own frame.
C17_StreamOrder ==
    /\ app_pc = "recorded" =>
          LET e == command_encoder
              f == updates
          IN  /\ \A i, j \in 1..Len(e) :
                    /\ (IsCopy(e[i], new_uniform_buffer(f), uniform_buffer)
                          /\ e[j].op = "dispatch") => i < j
                    /\ (e[i].op = "dispatch"
                          /\ e[j].op = "copy"
                          /\ e[j].src = position_buffer_out) => i < j
              /\ \E i \in 1..Len(e) :
                    IsCopy(e[i], new_uniform_buffer(f), uniform_buffer)
              /\ \E i \in 1..Len(e) : e[i].op = "dispatch"
              /\ \E i \in 1..Len(e) :
                    IsCopy(e[i], position_buffer_out, position_buffer_in)
              /\ \E i \in 1..Len(e) :
                    IsCopy(e[i], position_buffer_out, read_position_buffer(f))
    /\ \A f \in Frames :
          /\ submits[f] <= 1
          /\ read_positions_future[f] # "none" => submits[f] = 1
          /\ dispatched[f].tag = "Some" =>
                dispatched[f].val = device[new_uniform_buffer(f)]

\* C17, witness: the dispatch of the second frame has run under uniforms
\* that differ from those of the first frame
C17_Witness ==
    /\ MaxFrames >= 2
    /\ dispatched[1].tag = "Some" /\ dispatched[2].tag = "Some"
    /\ dispatched[1].val # dispatched[2].val
    /\ dispatched[2].val = model_uniforms

=============================================================================
